---------------------------- MODULE Spec2Model ----------------------------
(***************************************************************************)
(* A model of mkfilter.py: the MkFilter object, its design pipeline        *)
(* (prototype poles, prewarp, band transform, s->z mapping, polynomial     *)
(* expansion) and the argument validation of main().                       *)
(*                                                                         *)
(* Numbers.  A float is modelled as a fixed-point integer counting Q-ths   *)
(* (the float 1.0 is the integer Q), or the non-finite value NF, which     *)
(* stands for inf and nan together and is absorbing, as in IEEE            *)
(* arithmetic.  A complex is a pair <<re, im>>.  Arithmetic never raises:  *)
(* numpy turns a division by zero or an overflow into inf/nan and a        *)
(* warning, so does the model.  The library functions (exp, tan, sqrt,     *)
(* sinh, ...) are computed on the grid by rational formulas.               *)
(***************************************************************************)
EXTENDS Integers, Sequences, FiniteSets, TLC

\* ------------------------------------------------------------- bounds
\* Grid resolution: one unit of the grid is 1/Q.
Q == 256
\* Largest order drawn for a design on an object that was used before.
MaxReuseOrder == 2
\* Largest order drawn for the all-pass shape and for unordered corners.
MaxSmallOrder == 2

\* ----------------------------------------------------- program constants
MAXORDER == 10
\* np.pi in thousandths.
PiMilli == 3142

\* ------------------------------------------------------------- reals
NF == 2^30
MaxMag == 2^24
MulLim == 2^29

Fin(x) == x # NF

Abs(x) == IF x < 0 THEN -x ELSE x

Sgn(x) == IF x < 0 THEN -1 ELSE 1

\* Integer quotient rounded toward zero (b # 0).
TDiv(a, b) == Sgn(a) * Sgn(b) * (Abs(a) \div Abs(b))

\* A result outside the representable range overflows to non-finite.
Sat(x) == IF x > MaxMag \/ x < -MaxMag THEN NF ELSE x

FitsMul(x, y) == x = 0 \/ y = 0 \/ Abs(x) <= MulLim \div Abs(y)

\* The grid value of n/d.
Ratio(n, d) == TDiv(n * Q, d)

FromMilli(m) == Ratio(m, 1000)

RNeg(x) == IF Fin(x) THEN -x ELSE NF

RAdd(x, y) == IF Fin(x) /\ Fin(y) THEN Sat(x + y) ELSE NF

RSub(x, y) == RAdd(x, RNeg(y))

RMul(x, y) ==
    IF Fin(x) /\ Fin(y) /\ FitsMul(x, y) THEN Sat(TDiv(x * y, Q)) ELSE NF

RDiv(x, y) ==
    IF Fin(x) /\ Fin(y) /\ y # 0 /\ FitsMul(x, Q) THEN Sat(TDiv(x * Q, y)) ELSE NF

\* Comparisons with a non-finite operand are False, as with nan.
RLt(x, y) == Fin(x) /\ Fin(y) /\ x < y

RLe(x, y) == Fin(x) /\ Fin(y) /\ x <= y

RGe(x, y) == Fin(x) /\ Fin(y) /\ x >= y

RECURSIVE ISqrtIn(_, _, _)
ISqrtIn(n, lo, hi) ==
    IF lo >= hi THEN lo
    ELSE LET mid == (lo + hi + 1) \div 2
         IN  IF mid <= n \div mid THEN ISqrtIn(n, mid, hi) ELSE ISqrtIn(n, lo, mid - 1)

\* Floor of the square root of an integer n >= 0.
ISqrt(n) == IF n <= 0 THEN 0 ELSE ISqrtIn(n, 0, 32768)

\* np.sqrt of a real: nan for a negative argument.
RSqrt(x) == IF Fin(x) /\ x >= 0 /\ FitsMul(x, Q) THEN ISqrt(x * Q) ELSE NF

\* ---------------------------------------------------------- sequences
\* The sequence with the elements of f, computed once (a numpy array).
Array(f) == f \o <<>>

\* ----------------------------------------------------------- complexes
CNaN == <<NF, NF>>

CFin(z) == Fin(z[1]) /\ Fin(z[2])

Cx(re, im) == IF Fin(re) /\ Fin(im) THEN <<re, im>> ELSE CNaN

CReal(x) == Cx(x, 0)

Re(z) == z[1]

Im(z) == z[2]

COne == <<Q, 0>>

CAdd(a, b) == Cx(RAdd(a[1], b[1]), RAdd(a[2], b[2]))

CSub(a, b) == Cx(RSub(a[1], b[1]), RSub(a[2], b[2]))

CNeg(a) == Cx(RNeg(a[1]), RNeg(a[2]))

CConj(a) == Cx(a[1], RNeg(a[2]))

CMul(a, b) ==
    Cx(RSub(RMul(a[1], b[1]), RMul(a[2], b[2])),
       RAdd(RMul(a[1], b[2]), RMul(a[2], b[1])))

\* a / b by Smith's method, as numpy divides; non-finite when b is zero.
CDiv(a, b) ==
    IF ~(CFin(a) /\ CFin(b)) \/ b = <<0, 0>> THEN CNaN
    ELSE IF Abs(b[1]) >= Abs(b[2])
    THEN LET r   == RDiv(b[2], b[1])
             den == RAdd(b[1], RMul(b[2], r))
         IN  Cx(RDiv(RAdd(a[1], RMul(a[2], r)), den),
                RDiv(RSub(a[2], RMul(a[1], r)), den))
    ELSE LET r   == RDiv(b[1], b[2])
             den == RAdd(RMul(b[1], r), b[2])
         IN  Cx(RDiv(RAdd(RMul(a[1], r), a[2]), den),
                RDiv(RSub(RMul(a[2], r), a[1]), den))

\* |z| on the grid.
CAbs(z) ==
    IF CFin(z) /\ FitsMul(z[1], z[1]) /\ FitsMul(z[2], z[2])
    THEN ISqrt(z[1] * z[1] + z[2] * z[2])
    ELSE NF

\* np.sqrt of a complex: the principal branch (real part >= 0).
CSqrt(z) ==
    LET m == CAbs(z)
    IN  IF ~Fin(m) THEN CNaN
        ELSE Cx(RSqrt(TDiv(m + z[1], 2)),
                IF z[2] < 0 THEN RNeg(RSqrt(TDiv(m - z[1], 2)))
                ELSE RSqrt(TDiv(m - z[1], 2)))

\* np.exp of a complex, by the (2,2) Pade quotient (12+6s+s^2)/(12-6s+s^2).
CExp(s) ==
    LET s2 == CMul(s, s)
        s6 == CMul(<<6 * Q, 0>>, s)
    IN  CDiv(CAdd(CAdd(<<12 * Q, 0>>, s6), s2), CSub(CAdd(<<12 * Q, 0>>, s2), s6))

RExp(x) == Re(CExp(CReal(x)))

\* sin(pi*n/d) for 0 <= n <= d, by Bhaskara's quotient 16t(1-t)/(5-4t(1-t)).
SinPi01(n, d) == TDiv(16 * n * (d - n) * Q, 5 * d * d - 4 * n * (d - n))

\* sin(pi*n/d) for any integer n and d > 0.
SinPi(n, d) ==
    LET m == n % (2 * d)
    IN  IF m <= d THEN SinPi01(m, d) ELSE -SinPi01(m - d, d)

\* cos(pi*n/d) = sin(pi*(2n+d)/(2d)).
CosPi(n, d) == SinPi(2 * n + d, 2 * d)

\* np.exp(1j * pi*n/d): a point of the unit circle.
CisPi(n, d) == <<CosPi(n, d), SinPi(n, d)>>

\* ------------------------------------------------------- library functions
Ln10Milli == 2303

\* 10.0 ** x = exp(x * ln 10).
Pow10(x) == RExp(RMul(x, FromMilli(Ln10Milli)))

\* ln g = 2 atanh u, u = (g-1)/(g+1), by u + u^3/3 + u^5/5; nan for g <= 0.
RLn(g) ==
    IF ~RLt(0, g) THEN NF
    ELSE LET u  == RDiv(RSub(g, Q), RAdd(g, Q))
             u3 == RMul(u, RMul(u, u))
             u5 == RMul(u3, RMul(u, u))
         IN  RMul(2 * Q, RAdd(u, RAdd(RDiv(u3, 3 * Q), RDiv(u5, 5 * Q))))

\* np.arcsinh(v) = ln(v + sqrt(v^2 + 1)).
ArcSinh(v) == RLn(RAdd(v, RSqrt(RAdd(RMul(v, v), Q))))

Sinh(y) == RDiv(RSub(RExp(y), RExp(RNeg(y))), 2 * Q)

Cosh(y) == RDiv(RAdd(RExp(y), RExp(RNeg(y))), 2 * Q)

PI == FromMilli(PiMilli)

TWOPI == RMul(2 * Q, PI)

\* np.tan(PI * a) / PI for a grid value a.
TanOverPi(a) == RDiv(RDiv(SinPi(a, Q), CosPi(a, Q)), PI)

\* ------------------------------------------------------------- the table
\* The literal BESSEL_POLES is built from, in thousandths, one member of each
\* conjugate pair; row p of the source is element p+1.  BESSEL_POLES itself
\* is a module-level array every MkFilter object reads: a state variable.
BesselTable ==
    << <<-1000, 0>>, <<-1102, 636>>, <<-1323, 0>>,
       <<-1047, 999>>, <<-1370, 410>>, <<-995, 1257>>,
       <<-1502, 0>>, <<-1381, 718>>, <<-958, 1471>>,
       <<-1571, 321>>, <<-1382, 971>>, <<-931, 1662>>,
       <<-1684, 0>>, <<-1612, 589>>, <<-1379, 1192>>,
       <<-910, 1836>>, <<-1757, 273>>, <<-1637, 823>>,
       <<-1374, 1388>>, <<-893, 1998>>, <<-1857, 0>>,
       <<-1807, 512>>, <<-1652, 1031>>, <<-1368, 1568>>,
       <<-878, 2150>>, <<-1928, 242>>, <<-1842, 727>>,
       <<-1662, 1221>>, <<-1361, 1734>>, <<-866, 2293>> >>

VARIABLE BESSEL_POLES

\* BESSEL_POLES[p][0]; the caller checks InTable(p) first.
BesselRow(p) == <<FromMilli(BESSEL_POLES[p + 1][1]), FromMilli(BESSEL_POLES[p + 1][2])>>

\* Indexing the table outside 0..29 raises IndexError (p is never negative).
InTable(p) == p >= 0 /\ p < Len(BESSEL_POLES)

\* ------------------------------------------------------------ the object
\* None, for xcoeffs and ycoeffs before the first design.
None == <<>>

PoleZeroRep == [poles |-> <<>>, zeros |-> <<>>]

\* MkFilter.__init__
NewMkFilter ==
    [ splane |-> PoleZeroRep, zplane |-> PoleZeroRep,
      order |-> 0, raw_alpha1 |-> 0, raw_alpha2 |-> 0,
      warped_alpha1 |-> 0, warped_alpha2 |-> 0, chebrip |-> 0,
      filter_type |-> "None", band_type |-> "None",
      use_blt |-> TRUE, prewarp |-> TRUE,
      xcoeffs |-> None, ycoeffs |-> None,
      dc_gain |-> <<0, 0>>, fc_gain |-> <<0, 0>>, hf_gain |-> <<0, 0>> ]

\* StoreArgs that also drops the results of the design before.
StoreArgsReset(m, a) ==
    [m EXCEPT !.filter_type = a.filter_type, !.band_type = a.band_type,
              !.order = a.order, !.raw_alpha1 = a.alpha1,
              !.raw_alpha2 = IF a.alpha2 # None THEN a.alpha2[1] ELSE a.alpha1,
              !.chebrip = a.chebrip, !.use_blt = a.use_blt,
              !.prewarp = a.prewarp, !.xcoeffs = None, !.ycoeffs = None]

\* The assignments that open design: the arguments are stored in the object.
StoreArgs(m, a) ==
    [m EXCEPT !.filter_type = a.filter_type, !.band_type = a.band_type,
              !.order = a.order, !.raw_alpha1 = a.alpha1,
              !.raw_alpha2 = IF a.alpha2 # None THEN a.alpha2[1] ELSE a.alpha1,
              !.chebrip = a.chebrip, !.use_blt = a.use_blt,
              !.prewarp = a.prewarp]

\* --------------------------------------------------------- prototype poles
RECURSIVE BesselPairs(_, _, _)
\* for i in range(n): pole = BESSEL_POLES[p][0]; append pole, conj(pole); p += 1
BesselPairs(p, i, n) ==
    IF i >= n THEN <<>>
    ELSE <<BesselRow(p), CConj(BesselRow(p))>> \o BesselPairs(p + 1, i + 1, n)

\* BesselFirst with the rows counted from 1.
BesselFirstFromOne(order) == (order * order) \div 4 + 1

\* First row read by the Bessel branch.
BesselFirst(order) == (order * order) \div 4

\* Number of rows the Bessel branch reads: one if the order is odd, then one
\* per iteration of range(order // 2).
BesselCount(order) ==
    (IF order % 2 = 1 THEN 1 ELSE 0) + (IF order \div 2 > 0 THEN order \div 2 ELSE 0)

\* The branch raises IndexError at the first row it reads outside the table.
BesselRaises(order) ==
    BesselCount(order) > 0 /\ ~InTable(BesselFirst(order) + BesselCount(order) - 1)

BesselPoles(order) ==
    LET p == BesselFirst(order)
    IN  IF order % 2 = 1
        THEN <<BesselRow(p)>> \o BesselPairs(p + 1, 0, order \div 2)
        ELSE BesselPairs(p, 0, order \div 2)

\* ThetaIndex with the half step of the even orders left out.
ThetaIndexNoHalf(i, order) == 2 * i

\* Angle of candidate i, in units of pi / (2 * order).
ThetaIndex(i, order) == IF order % 2 = 1 THEN 2 * i ELSE 2 * i + 1

\* KeepPole with the right half-plane candidates kept as well.
KeepPoleAll(pole) == TRUE

\* Only left half-plane candidates are kept.
KeepPole(pole) == RLt(Re(pole), 0)

RECURSIVE ButterPoles(_, _)
\* for i in range(2 * order): pole = exp(1j * theta); keep it if pole.real < 0
ButterPoles(i, order) ==
    IF i >= 2 * order THEN <<>>
    ELSE LET pole == CisPi(ThetaIndex(i, order), 2 * order)
         IN  (IF KeepPole(pole) THEN <<pole>> ELSE <<>>) \o ButterPoles(i + 1, order)

PrototypePoles(m) ==
    (IF m.filter_type = "Be" THEN BesselPoles(m.order) ELSE <<>>)
    \o (IF m.filter_type \in {"Bu", "Ch"} THEN ButterPoles(0, m.order) ELSE <<>>)

\* y = arcsinh(1 / eps) / order, eps = sqrt(10 ** (-chebrip / 10) - 1)
ChebY(m) ==
    LET rip == Pow10(RDiv(RNeg(m.chebrip), 10 * Q))
        eps == RSqrt(RSub(rip, Q))
    IN  RDiv(ArcSinh(RDiv(Q, eps)), m.order * Q)

\* ChebRippleBad with a ripple of exactly 0.0 let through.
ChebRippleBadStrict(m) == RLt(0, m.chebrip)

ChebRippleBad(m) == RGe(m.chebrip, 0)

ChebYBad(m) == RLe(ChebY(m), 0)

ChebScale(poles, y) ==
    Array([i \in 1..Len(poles) |->
        Cx(RMul(Re(poles[i]), Sinh(y)), RMul(Im(poles[i]), Cosh(y)))])

\* The table with the rows an order reads conjugated where they stand.
TableRowsConjugated(m) ==
    IF m.filter_type # "Be" THEN BESSEL_POLES
    ELSE [p \in 1..Len(BESSEL_POLES) |->
            IF p - 1 >= BesselFirst(m.order)
               /\ p - 1 < BesselFirst(m.order) + BesselCount(m.order)
            THEN <<BESSEL_POLES[p][1], -BESSEL_POLES[p][2]>>
            ELSE BESSEL_POLES[p]]

\* BESSEL_POLES as _compute_s_plane leaves it: the Bessel branch indexes the
\* table, which yields copies of its elements, and conj returns a new value;
\* nothing is assigned into the table.
TableAfterSPlane(m) == BESSEL_POLES

\* MkFilter._compute_s_plane: the object after the method, the error it raised
\* ("none" when it returned) and whether splane.poles was assigned.
ComputeSPlane(m) ==
    IF m.filter_type = "Be" /\ BesselRaises(m.order)
    THEN [mkf |-> m, err |-> "IndexError", wrote |-> FALSE]
    ELSE LET m1 == [m EXCEPT !.splane.poles = PrototypePoles(m)]
         IN  IF m.filter_type # "Ch" THEN [mkf |-> m1, err |-> "none", wrote |-> TRUE]
             ELSE IF ChebRippleBad(m) \/ ChebYBad(m)
             THEN [mkf |-> m1, err |-> "ValueError", wrote |-> TRUE]
             ELSE [mkf |-> [m1 EXCEPT !.splane.poles = ChebScale(m1.splane.poles, ChebY(m))],
                   err |-> "none", wrote |-> TRUE]

\* ----------------------------------------------------------------- prewarp
\* MkFilter._prewarp_frequencies
PrewarpFrequencies(m) ==
    IF ~m.prewarp \/ ~m.use_blt
    THEN [m EXCEPT !.warped_alpha1 = m.raw_alpha1, !.warped_alpha2 = m.raw_alpha2]
    ELSE [m EXCEPT !.warped_alpha1 = TanOverPi(m.raw_alpha1),
                   !.warped_alpha2 = TanOverPi(m.raw_alpha2)]

\* ---------------------------------------------------------- band transform
Half == Ratio(1, 2)

\* temp = sqrt(1.0 - (w0 / hba) ** 2)
BandDisc(w0, hba) ==
    LET r == CDiv(CReal(w0), hba)
    IN  CSqrt(CSub(COne, CMul(r, r)))

\* BandPair with the two poles in the other order.
BandPairSwapped(w0, hba) ==
    << CMul(hba, CSub(COne, BandDisc(w0, hba))),
       CMul(hba, CAdd(COne, BandDisc(w0, hba))) >>

\* The two poles one prototype pole becomes: hba * (1 + temp), hba * (1 - temp).
BandPair(w0, hba) ==
    << CMul(hba, CAdd(COne, BandDisc(w0, hba))),
       CMul(hba, CSub(COne, BandDisc(w0, hba))) >>

RECURSIVE BpPoles(_, _, _, _)
BpPoles(poles, i, w0, bw) ==
    IF i > Len(poles) THEN <<>>
    ELSE BandPair(w0, CMul(CMul(CReal(Half), poles[i]), CReal(bw)))
         \o BpPoles(poles, i + 1, w0, bw)

RECURSIVE BsPoles(_, _, _, _)
BsPoles(poles, i, w0, bw) ==
    IF i > Len(poles) THEN <<>>
    ELSE BandPair(w0, CDiv(CReal(RMul(Half, bw)), poles[i]))
         \o BsPoles(poles, i + 1, w0, bw)

\* new_zeros: 1j * w0, -1j * w0 for each prototype pole.
BsZeros(n, w0) ==
    Array([i \in 1..(2 * n) |-> IF i % 2 = 1 THEN Cx(0, w0) ELSE Cx(0, RNeg(w0))])

Zeros(n) == Array([i \in 1..n |-> <<0, 0>>])

\* Normalize whose lowpass branch leaves splane.zeros as it finds them.
NormalizeKeepZeros(m) ==
    LET w1 == RMul(TWOPI, m.warped_alpha1)
        w2 == RMul(TWOPI, m.warped_alpha2)
        w0 == RSqrt(RMul(w1, w2))
        bw == RSub(w2, w1)
        P  == m.splane.poles
    IN  CASE m.band_type = "Lp" ->
               [m EXCEPT !.splane.poles = Array([i \in 1..Len(P) |-> CMul(P[i], CReal(w1))])]
          [] m.band_type = "Hp" ->
               [m EXCEPT !.splane.poles = Array([i \in 1..Len(P) |-> CDiv(CReal(w1), P[i])]),
                         !.splane.zeros = Zeros(Len(P))]
          [] m.band_type = "Bp" ->
               [m EXCEPT !.splane.poles = BpPoles(P, 1, w0, bw),
                         !.splane.zeros = Zeros(Len(BpPoles(P, 1, w0, bw)) \div 2)]
          [] m.band_type = "Bs" ->
               [m EXCEPT !.splane.poles = BsPoles(P, 1, w0, bw),
                         !.splane.zeros = BsZeros(Len(P), w0)]
          [] OTHER -> m

\* MkFilter._normalize
Normalize(m) ==
    LET w1 == RMul(TWOPI, m.warped_alpha1)
        w2 == RMul(TWOPI, m.warped_alpha2)
        w0 == RSqrt(RMul(w1, w2))
        bw == RSub(w2, w1)
        P  == m.splane.poles
    IN  CASE m.band_type = "Lp" ->
               [m EXCEPT !.splane.poles = Array([i \in 1..Len(P) |-> CMul(P[i], CReal(w1))]),
                         !.splane.zeros = <<>>]
          [] m.band_type = "Hp" ->
               [m EXCEPT !.splane.poles = Array([i \in 1..Len(P) |-> CDiv(CReal(w1), P[i])]),
                         !.splane.zeros = Zeros(Len(P))]
          [] m.band_type = "Bp" ->
               [m EXCEPT !.splane.poles = BpPoles(P, 1, w0, bw),
                         !.splane.zeros = Zeros(Len(BpPoles(P, 1, w0, bw)) \div 2)]
          [] m.band_type = "Bs" ->
               [m EXCEPT !.splane.poles = BsPoles(P, 1, w0, bw),
                         !.splane.zeros = BsZeros(Len(P), w0)]
          [] OTHER -> m

\* ------------------------------------------------------------ s -> z maps
\* z = (2 + s) / (2 - s)
Blt(s) == CDiv(CAdd(CReal(2 * Q), s), CSub(CReal(2 * Q), s))

MapBlt(roots) == Array([i \in 1..Len(roots) |-> Blt(roots[i])])

MapMzt(roots) == Array([i \in 1..Len(roots) |-> CExp(roots[i])])

\* PadZeros with the padding loop left out.
PadZerosNone(zeros, npoles) == zeros

RECURSIVE PadZeros(_, _)
\* while len(zeros) < npoles: zeros = append(zeros, -1.0)
PadZeros(zeros, npoles) ==
    IF Len(zeros) < npoles THEN PadZeros(Append(zeros, CReal(-Q)), npoles) ELSE zeros

\* MkFilter._compute_z_blt
ComputeZBlt(m) ==
    [m EXCEPT !.zplane.poles = MapBlt(m.splane.poles),
              !.zplane.zeros = PadZeros(IF Len(m.splane.zeros) > 0
                                        THEN MapBlt(m.splane.zeros) ELSE <<>>,
                                        Len(m.splane.poles))]

\* ComputeZMzt followed by the padding loop of the bilinear path.
ComputeZMztPadded(m) ==
    [m EXCEPT !.zplane.poles = MapMzt(m.splane.poles),
              !.zplane.zeros = PadZeros(IF Len(m.splane.zeros) > 0
                                        THEN MapMzt(m.splane.zeros) ELSE <<>>,
                                        Len(m.splane.poles))]

\* MkFilter._compute_z_mzt
ComputeZMzt(m) ==
    [m EXCEPT !.zplane.poles = MapMzt(m.splane.poles),
              !.zplane.zeros = IF Len(m.splane.zeros) > 0
                               THEN MapMzt(m.splane.zeros) ELSE <<>>]

\* ------------------------------------------------------ expansion and gains
\* ExpandStep with the product added where it is subtracted.
ExpandStepPlus(coeffs, root) ==
    Array([i \in 1..(Len(coeffs) + 1) |->
        IF i = Len(coeffs) + 1 THEN coeffs[Len(coeffs)]
        ELSE IF i = 1 THEN CMul(CNeg(root), coeffs[1])
        ELSE CAdd(coeffs[i - 1], CMul(root, coeffs[i]))])

\* One step of _expand: the coefficients of (z - root) times the polynomial.
ExpandStep(coeffs, root) ==
    Array([i \in 1..(Len(coeffs) + 1) |->
        IF i = Len(coeffs) + 1 THEN coeffs[Len(coeffs)]
        ELSE IF i = 1 THEN CMul(CNeg(root), coeffs[1])
        ELSE CSub(coeffs[i - 1], CMul(root, coeffs[i]))])

RECURSIVE ExpandFrom(_, _, _)
ExpandFrom(coeffs, roots, i) ==
    IF i > Len(roots) THEN coeffs
    ELSE ExpandFrom(ExpandStep(coeffs, roots[i]), roots, i + 1)

\* _expand with the last root left out of the loop.
ExpandSkipLast(roots) == ExpandFrom(<<COne>>, SubSeq(roots, 1, Len(roots) - 1), 1)

\* MkFilter._expand: lowest power first.
Expand(roots) == ExpandFrom(<<COne>>, roots, 1)

RECURSIVE PolySum(_, _, _, _, _)
\* sum(c * z**i for i, c in enumerate(coeffs)): acc is the sum of the terms
\* before element i, and zi the power of z that multiplies element i.
PolySum(coeffs, z, i, zi, acc) ==
    IF i > Len(coeffs) THEN acc
    ELSE PolySum(coeffs, z, i + 1, CMul(z, zi), CAdd(acc, CMul(coeffs[i], zi)))

\* MkFilter._evaluate
Evaluate(topcoeffs, botcoeffs, z) ==
    CDiv(PolySum(topcoeffs, z, 1, COne, <<0, 0>>), PolySum(botcoeffs, z, 1, COne, <<0, 0>>))

\* xcoeffs = real(topcoeffs) / real(botcoeffs[-1])
XCoeffs(top, bot) == Array([i \in 1..Len(top) |-> RDiv(Re(top[i]), Re(bot[Len(bot)]))])

\* YCoeffs with the sign of the denominator polynomial kept.
YCoeffsNoNeg(bot) == Array([i \in 1..Len(bot) |-> RDiv(Re(bot[i]), Re(bot[Len(bot)]))])

\* ycoeffs = -real(botcoeffs) / real(botcoeffs[-1])
YCoeffs(bot) == Array([i \in 1..Len(bot) |-> RDiv(RNeg(Re(bot[i])), Re(bot[Len(bot)]))])

\* z = exp(1j * TWOPI * 0.5 * (raw_alpha1 + raw_alpha2))
CentreZ(m) == CisPi(m.raw_alpha1 + m.raw_alpha2, Q)

\* MkFilter._expand_poly
ExpandPoly(m) ==
    LET topcoeffs == Expand(m.zplane.zeros)
        botcoeffs == Expand(m.zplane.poles)
    IN  [m EXCEPT !.dc_gain = Evaluate(topcoeffs, botcoeffs, COne),
                  !.fc_gain = Evaluate(topcoeffs, botcoeffs, CentreZ(m)),
                  !.hf_gain = Evaluate(topcoeffs, botcoeffs, CReal(-Q)),
                  !.xcoeffs = XCoeffs(topcoeffs, botcoeffs),
                  !.ycoeffs = YCoeffs(botcoeffs)]

\* ---------------------------------------------------------------- get_gain
\* get_gain with the highpass branch reading dc_gain.
GetGainHpAsDc(m) ==
    CASE m.band_type = "Lp" -> CAbs(m.dc_gain)
      [] m.band_type = "Hp" -> CAbs(m.dc_gain)
      [] m.band_type \in {"Bp", "Ap"} -> CAbs(m.fc_gain)
      [] m.band_type = "Bs" -> CAbs(CSqrt(CMul(m.dc_gain, m.hf_gain)))
      [] OTHER -> Q

\* MkFilter.get_gain: 1.0 when band_type is none of the shapes.
GetGain(m) ==
    CASE m.band_type = "Lp" -> CAbs(m.dc_gain)
      [] m.band_type = "Hp" -> CAbs(m.hf_gain)
      [] m.band_type \in {"Bp", "Ap"} -> CAbs(m.fc_gain)
      [] m.band_type = "Bs" -> CAbs(CSqrt(CMul(m.dc_gain, m.hf_gain)))
      [] OTHER -> Q

\* ------------------------------------------------------------ the arguments
FilterTypes == {"Bu", "Be", "Ch"}

BandTypes == {"Lp", "Hp", "Bp", "Bs"}

\* Orders drawn: every valid order, and 0, a negative one and MAXORDER + 1.
Orders == (-1)..(MAXORDER + 1)

\* Corner frequencies drawn: 0 (outside (0, 0.5)) and 1/8.
Alpha1s == {0, Ratio(1, 8)}

\* alpha2: omitted, or 3/8.
Alpha2s == {None, <<Ratio(3, 8)>>}

\* Ripples drawn for Chebyshev: -1 dB (the default), 0 and +1 dB.
Ripples == {-Q, 0, Q}

Args(ft, bt, o, a1, a2, rip, blt, pw) ==
    [ filter_type |-> ft, band_type |-> bt, order |-> o, alpha1 |-> a1,
      alpha2 |-> a2, chebrip |-> rip, use_blt |-> blt, prewarp |-> pw ]

\* main passes chebrip = -1.0 unless the family is Chebyshev.
AllArgs ==
    { Args(ft, bt, o, a1, a2, rip, blt, pw) :
        ft \in FilterTypes, bt \in BandTypes, o \in Orders, a1 \in Alpha1s,
        a2 \in Alpha2s, rip \in Ripples, blt \in BOOLEAN, pw \in BOOLEAN }

CallArgs == { a \in AllArgs : a.filter_type # "Ch" => a.chebrip = -Q }

\* Command lines drawn for main: neither -z nor -w is given.
MainArgs == { a \in CallArgs : a.use_blt /\ a.prewarp }

\* Arguments drawn for a design on an object that was used before: one corner
\* for Lp/Hp and two for Bp/Bs, as main passes them.
ReuseCombos ==
    { <<"Bu", o, -Q>> : o \in 1..MaxReuseOrder }
    \cup { <<"Be", 1, -Q>>, <<"Be", MAXORDER + 1, -Q>>, <<"Ch", 1, -Q>>, <<"Ch", 1, 0>> }

ReuseArgs ==
    { Args(c[1], bt, c[2], Ratio(1, 8),
           IF bt \in {"Bp", "Bs"} THEN <<Ratio(3, 8)>> ELSE None, c[3], blt, TRUE) :
        c \in ReuseCombos, bt \in BandTypes, blt \in BOOLEAN }

\* The all-pass band shape get_gain knows: _normalize has no branch for it.
ApArgs ==
    { Args("Bu", "Ap", o, Ratio(1, 8), None, -Q, blt, TRUE) :
        o \in 1..MaxSmallOrder, blt \in BOOLEAN }

\* Two corner frequencies, each inside (0, 0.5), that are not in rising
\* order: alpha1 above alpha2, and alpha1 equal to alpha2.
UnorderedArgs ==
    { Args(ft, bt, o, a1, <<Ratio(1, 8)>>, -Q, blt, TRUE) :
        ft \in {"Bu", "Ch"}, bt \in {"Bp", "Bs"}, o \in 1..MaxSmallOrder,
        a1 \in {Ratio(3, 8), Ratio(1, 8)}, blt \in BOOLEAN }

NoArgs == Args("None", "None", 0, 0, None, 0, TRUE, TRUE)

\* ------------------------------------------------------------------- main
\* The argument checks of main: the order, and the number of corner
\* frequencies for the band shape (len(args.alpha) is 1 or 2 here).
MainRejects(a) ==
    \/ a.order < 1 \/ a.order > MAXORDER
    \/ a.band_type \in {"Bp", "Bs"} /\ a.alpha2 = None
    \/ a.band_type \in {"Lp", "Hp"} /\ a.alpha2 # None

\* Arguments drawn for designs on two objects at once.
SharedArgs ==
    { Args("Be", "Lp", 1, Ratio(1, 8), None, -Q, TRUE, TRUE),
      Args("Be", "Hp", 2, Ratio(1, 8), None, -Q, FALSE, TRUE),
      Args("Be", "Bp", 3, Ratio(1, 8), <<Ratio(3, 8)>>, -Q, TRUE, TRUE),
      Args("Be", "Lp", MAXORDER + 1, Ratio(1, 8), None, -Q, TRUE, TRUE),
      Args("Bu", "Lp", 2, Ratio(1, 8), None, -Q, TRUE, TRUE),
      Args("Ch", "Lp", 1, Ratio(1, 8), None, 0, TRUE, TRUE) }

\* The second object before any design: during is where the call on the
\* first object stood when the call on this one began.
OtherIdle ==
    [mkf |-> NewMkFilter, pc |-> "idle", args |-> NoArgs, err |-> "none", during |-> "idle"]

\* ------------------------------------------------------ _expand on its own
\* Longest root list drawn.
MaxRoots == 3

\* Roots drawn: complex numbers with integer parts, <<re, im>>.
RootVals == { <<-2, 0>>, <<-1, 0>>, <<0, 0>>, <<1, 0>>, <<1, 1>>, <<0, -1>> }

RootLists == UNION { [1..n -> RootVals] : n \in 0..MaxRoots }

\* The complex number with integer parts r, as the arithmetic holds it.
Exact(r) == <<r[1] * Q, r[2] * Q>>

ExactAll(rs) == Array([i \in 1..Len(rs) |-> Exact(rs[i])])

\* The permutations of 1..n.
Perms(n) == { p \in [1..n -> 1..n] : \A i, j \in 1..n : i # j => p[i] # p[j] }

Permute(rs, p) == Array([i \in 1..Len(rs) |-> rs[p[i]]])

\* No call of _expand yet.
ExIdle == [roots |-> <<>>, pc |-> "idle", i |-> 0, coeffs |-> None, perm |-> None, pcoeffs |-> None]

\* ---------------------------------------------------------- apply_filter
\* Longest signal drawn.
MaxSamples == 3

\* Samples drawn: -1.0, 0.0, 1.0 and 2.0.
SampleVals == {-Q, 0, Q, 2 * Q}

\* Filters drawn for apply_filter: valid designs of orders 1 and 2, through
\* the bilinear transform and, for one, through matched-z, where xcoeffs is
\* shorter than ycoeffs.
RunArgs ==
    { Args("Bu", "Lp", 1, Ratio(1, 8), None, -Q, TRUE, TRUE),
      Args("Bu", "Hp", 2, Ratio(1, 8), None, -Q, TRUE, TRUE),
      Args("Ch", "Lp", 2, Ratio(1, 8), None, -Q, TRUE, TRUE),
      Args("Be", "Bp", 1, Ratio(1, 8), <<Ratio(3, 8)>>, -Q, TRUE, TRUE),
      Args("Bu", "Lp", 2, Ratio(1, 8), None, -Q, FALSE, TRUE) }

\* No call of apply_filter yet.
RunIdle ==
    [pc |-> "idle", xcoeffs |-> <<>>, ycoeffs |-> <<>>, gain |-> 0, xv |-> <<>>,
     yv |-> <<>>, signal |-> <<>>, n |-> 0, output |-> <<>>]

RECURSIVE Dot(_, _, _)
\* np.dot(a, b), summed from index i on.
Dot(a, b, i) ==
    IF i > Len(a) THEN 0 ELSE RAdd(RMul(a[i], b[i]), Dot(a, b, i + 1))

\* ApplyOutput with the last ycoeff applied as well.
ApplyOutputAllY(xcoeffs, xv, ycoeffs, yv) ==
    RAdd(Dot(xcoeffs, xv, 1), Dot(ycoeffs, yv, 1))

\* np.dot(xcoeffs, xv) + np.dot(ycoeffs[:-1], yv[:-1])
ApplyOutput(xcoeffs, xv, ycoeffs, yv) ==
    RAdd(Dot(xcoeffs, xv, 1),
         Dot(SubSeq(ycoeffs, 1, Len(ycoeffs) - 1), SubSeq(yv, 1, Len(yv) - 1), 1))

\* -------------------------------------------------------- generate_c_code
\* Most calls of filterStep made on the generated programs.
MaxSteps == 3

\* EPS = 1e-10, counted in quarters of 1e-10.
EPS == 4

\* A coefficient handed to generate_c_code, and a float of the generated
\* program, is a pair <<g, t>>: g counts 1/Q as everywhere else, t counts
\* quarters of 1e-10, far below that grid. The product of two t parts is
\* dropped.

\* The number a C compiler reads from f"{c:14.10f}" and from f"{c:+0.10f}":
\* c rounded to ten decimals. The width and the sign flag change no digit.
Literal(c) == <<c[1], 4 * TDiv(2 * c[2] + 4 * Sgn(c[2]), 8)>>

\* optimize=True: one term per coefficient with abs(c) > EPS, the xcoeffs
\* first and then ycoeffs[:-1], each a literal times a buffer place.
UnrolledTerms(m) ==
    LET Kept(t) == Fin(t.c[1]) /\ (t.c[1] # 0 \/ Abs(t.c[2]) > EPS)
        all == [i \in 1..Len(m.xcoeffs) |-> [c |-> m.xcoeffs[i], v |-> "xv", i |-> i]]
               \o [i \in 1..(Len(m.ycoeffs) - 1) |-> [c |-> m.ycoeffs[i], v |-> "yv", i |-> i]]
        kept == SelectSeq(all, Kept)
    IN  Array([k \in 1..Len(kept) |-> [kept[k] EXCEPT !.c = Literal(kept[k].c)]])

\* optimize=False: the tables xcoeffs[] and ycoeffs[] hold every coefficient
\* but the last of ycoeffs, and the two loops of filterStep walk them in
\* order, the x table first.
LoopTerms(m) ==
    Array([i \in 1..Len(m.xcoeffs) |-> [c |-> Literal(m.xcoeffs[i]), v |-> "xv", i |-> i]]
          \o [i \in 1..(Len(m.ycoeffs) - 1) |->
                [c |-> Literal(m.ycoeffs[i]), v |-> "yv", i |-> i]])

RECURSIVE SumTerms(_, _, _, _, _)
\* yv[NPOLES] as filterStep computes it: the terms added from left to right.
SumTerms(terms, xv, yv, k, acc) ==
    IF k > Len(terms) THEN acc
    ELSE LET c == terms[k].c
             v == IF terms[k].v = "xv" THEN xv[terms[k].i] ELSE yv[terms[k].i]
             p == IF Fin(RMul(c[1], v[1]))
                  THEN <<RMul(c[1], v[1]), TDiv(c[1] * v[2] + c[2] * v[1], Q)>>
                  ELSE <<NF, 0>>
             s == IF Fin(RAdd(acc[1], p[1]))
                  THEN <<RAdd(acc[1], p[1]), acc[2] + p[2]>>
                  ELSE <<NF, 0>>
         IN  SumTerms(terms, xv, yv, k + 1, s)

\* No program generated yet.
GenIdle ==
    [mkf |-> None, n |-> 0,
     code |-> [optimize \in BOOLEAN |->
                 [made |-> FALSE, NZEROS |-> 0, NPOLES |-> 0, GAIN |-> 0,
                  terms |-> <<>>, xv |-> <<>>, yv |-> <<>>]]]

\* ------------------------------------------------------------- the state
VARIABLES
    mkf,      \* the MkFilter object
    pc,       \* where the current design call stands
    args,     \* the arguments of the current (or last) design call
    err,      \* the exception that ended the last call, or "none"
    caller,   \* "api": design was called directly; "main": by main
    trace,    \* the steps of the current call, in the order they ran
    pre,      \* the results held by the object when the call began
    gain,     \* <<g>>: what get_gain returned since the last call; else None
    other,    \* a second MkFilter object and the design call running on it
    ex,       \* a call of _expand on its own: roots, position, coefficients
    run,      \* a call of apply_filter on the designed object
    gen       \* the two C programs generate_c_code emits for one filter, and their buffers

\* What the design calls on the first object leave alone.
aux == <<other, ex, run, gen>>

vars == <<mkf, pc, args, err, caller, trace, pre, gain, BESSEL_POLES, aux>>

\* What a design leaves for its caller.
Results(m) ==
    [ xcoeffs |-> m.xcoeffs, ycoeffs |-> m.ycoeffs, dc_gain |-> m.dc_gain,
      fc_gain |-> m.fc_gain, hf_gain |-> m.hf_gain, zplane |-> m.zplane ]

Init ==
    /\ mkf = NewMkFilter
    /\ pc = "idle"
    /\ args = NoArgs
    /\ err = "none"
    /\ caller = "api"
    /\ trace = <<>>
    /\ pre = Results(NewMkFilter)
    /\ gain = None
    /\ BESSEL_POLES = BesselTable
    /\ other = OtherIdle
    /\ ex = ExIdle
    /\ run = RunIdle
    /\ gen = GenIdle

AtRest == pc \in {"idle", "returned", "raised", "rejected"}

\* mkf = MkFilter()
New ==
    /\ pc \in {"returned", "raised", "rejected"}
    /\ mkf' = NewMkFilter
    /\ pc' = "idle"
    /\ args' = NoArgs
    /\ err' = "none"
    /\ caller' = "api"
    /\ trace' = <<>>
    /\ pre' = Results(NewMkFilter)
    /\ gain' = None
    /\ UNCHANGED <<BESSEL_POLES, aux>>

\* design(...) is entered: lines 94-101.
Design(a) ==
    /\ AtRest /\ pc # "rejected"
    /\ mkf' = StoreArgs(mkf, a)
    /\ pc' = "s_plane"
    /\ args' = a
    /\ err' = "none"
    /\ caller' = "api"
    /\ trace' = <<"design">>
    /\ pre' = Results(mkf)
    /\ gain' = None
    /\ UNCHANGED <<BESSEL_POLES, aux>>

\* The object is new: no design has run on it.
Fresh == mkf = NewMkFilter /\ pc = "idle"

\* main: the checks of lines 519-530, then MkFilter() and design.
Main(a) ==
    /\ Fresh
    /\ args' = a
    /\ err' = "none"
    /\ caller' = "main"
    /\ pre' = Results(mkf)
    /\ gain' = None
    /\ UNCHANGED <<BESSEL_POLES, aux>>
    /\ IF MainRejects(a)
       THEN /\ pc' = "rejected"
            /\ trace' = <<>>
            /\ mkf' = mkf
       ELSE /\ pc' = "s_plane"
            /\ trace' = <<"design">>
            /\ mkf' = StoreArgs(NewMkFilter, a)

\* self._compute_s_plane()
SPlane ==
    /\ pc = "s_plane"
    /\ LET r == ComputeSPlane(mkf)
       IN  /\ mkf' = r.mkf
           /\ err' = r.err
           /\ pc' = IF r.err = "none" THEN "prewarp" ELSE "raised"
           /\ trace' = trace \o (IF r.wrote THEN <<"poles">> ELSE <<>>)
                             \o (IF r.err = "none" THEN <<"s_plane">> ELSE <<"raise">>)
    /\ BESSEL_POLES' = TableAfterSPlane(mkf)
    /\ UNCHANGED <<args, caller, pre, gain, aux>>

\* self._prewarp_frequencies()
Prewarp ==
    /\ pc = "prewarp"
    /\ mkf' = PrewarpFrequencies(mkf)
    /\ pc' = "normalize"
    /\ trace' = Append(trace, "prewarp")
    /\ UNCHANGED <<args, err, caller, pre, gain, BESSEL_POLES, aux>>

\* self._normalize()
BandTransform ==
    /\ pc = "normalize"
    /\ mkf' = Normalize(mkf)
    /\ pc' = "z_plane"
    /\ trace' = Append(trace, "normalize")
    /\ UNCHANGED <<args, err, caller, pre, gain, BESSEL_POLES, aux>>

\* ZBlt taken whatever use_blt says.
ZBltAlways ==
    /\ pc = "z_plane"
    /\ mkf' = ComputeZBlt(mkf)
    /\ pc' = "expand"
    /\ trace' = Append(trace, "z_blt")
    /\ UNCHANGED <<args, err, caller, pre, gain, BESSEL_POLES, aux>>

\* if use_blt: self._compute_z_blt()
ZBlt ==
    /\ pc = "z_plane" /\ args.use_blt
    /\ mkf' = ComputeZBlt(mkf)
    /\ pc' = "expand"
    /\ trace' = Append(trace, "z_blt")
    /\ UNCHANGED <<args, err, caller, pre, gain, BESSEL_POLES, aux>>

\* else: self._compute_z_mzt()
ZMzt ==
    /\ pc = "z_plane" /\ ~args.use_blt
    /\ mkf' = ComputeZMzt(mkf)
    /\ pc' = "expand"
    /\ trace' = Append(trace, "z_mzt")
    /\ UNCHANGED <<args, err, caller, pre, gain, BESSEL_POLES, aux>>

\* self._expand_poly(); return self.xcoeffs, self.ycoeffs
ExpandAndReturn ==
    /\ pc = "expand"
    /\ mkf' = ExpandPoly(mkf)
    /\ pc' = "returned"
    /\ trace' = Append(trace, "expand")
    /\ UNCHANGED <<args, err, caller, pre, gain, BESSEL_POLES, aux>>

\* mkf.get_gain(), on an object no design call is running on.
GetGainCall ==
    /\ pc \in {"idle", "returned", "raised"}
    /\ gain = None
    /\ gain' = <<GetGain(mkf)>>
    /\ UNCHANGED <<mkf, pc, args, err, caller, trace, pre, BESSEL_POLES, aux>>

Stage == SPlane \/ Prewarp \/ BandTransform \/ ZBlt \/ ZMzt \/ ExpandAndReturn

\* ------------------------------------------------- a second object
\* One stage of MkFilter.design on the run r = [mkf, pc, args, err, during].
StageOn(r) ==
    CASE r.pc = "s_plane" ->
           LET c == ComputeSPlane(r.mkf)
           IN  [r EXCEPT !.mkf = c.mkf, !.err = c.err,
                         !.pc = IF c.err = "none" THEN "prewarp" ELSE "raised"]
      [] r.pc = "prewarp" -> [r EXCEPT !.mkf = PrewarpFrequencies(r.mkf), !.pc = "normalize"]
      [] r.pc = "normalize" -> [r EXCEPT !.mkf = Normalize(r.mkf), !.pc = "z_plane"]
      [] r.pc = "z_plane" ->
           [r EXCEPT !.mkf = IF r.args.use_blt THEN ComputeZBlt(r.mkf) ELSE ComputeZMzt(r.mkf),
                     !.pc = "expand"]
      [] r.pc = "expand" -> [r EXCEPT !.mkf = ExpandPoly(r.mkf), !.pc = "returned"]
      [] OTHER -> r

core == <<mkf, pc, args, err, caller, trace, pre, gain>>

\* other = MkFilter()
OtherNew ==
    /\ other.pc \in {"returned", "raised"}
    /\ other' = OtherIdle
    /\ UNCHANGED <<core, BESSEL_POLES, ex, run, gen>>

\* other.design(...) is entered, on a new object.
OtherDesign(a) ==
    /\ other.pc = "idle"
    /\ other' = [mkf |-> StoreArgs(other.mkf, a), pc |-> "s_plane", args |-> a,
                 err |-> "none", during |-> pc]
    /\ UNCHANGED <<core, BESSEL_POLES, ex, run, gen>>

\* The design call on the second object runs its next stage.
OtherStage ==
    /\ other.pc \in {"s_plane", "prewarp", "normalize", "z_plane", "expand"}
    /\ other' = StageOn(other)
    /\ BESSEL_POLES' = IF other.pc = "s_plane" THEN TableAfterSPlane(other.mkf)
                       ELSE BESSEL_POLES
    /\ UNCHANGED <<core, ex, run, gen>>

\* ------------------------------------------------- _expand, step by step
\* coeffs = np.array([1.0]); the empty root set returns it at once.
ExpandEnter ==
    /\ ex.pc = "call"
    /\ ex' = [ex EXCEPT !.coeffs = <<COne>>, !.i = 1,
                        !.pc = IF Len(ex.roots) = 0 THEN "done" ELSE "loop"]
    /\ UNCHANGED <<core, BESSEL_POLES, other, run, gen>>

\* for root in roots: one pass of the loop body.
ExpandIter ==
    /\ ex.pc = "loop" /\ ex.i <= Len(ex.roots)
    /\ ex' = [ex EXCEPT !.coeffs = ExpandStep(ex.coeffs, Exact(ex.roots[ex.i])), !.i = ex.i + 1]
    /\ UNCHANGED <<core, BESSEL_POLES, other, run, gen>>

\* return coeffs
ExpandReturn ==
    /\ ex.pc = "loop" /\ ex.i > Len(ex.roots)
    /\ ex' = [ex EXCEPT !.pc = "done"]
    /\ UNCHANGED <<core, BESSEL_POLES, other, run, gen>>

\* _expand called again with the same roots in another order.
ExpandPermuted(p) ==
    /\ ex.pc = "done" /\ ex.perm = None
    /\ ex' = [ex EXCEPT !.perm = p, !.pcoeffs = Expand(ExactAll(Permute(ex.roots, p)))]
    /\ UNCHANGED <<core, BESSEL_POLES, other, run, gen>>

InitExpand ==
    /\ mkf = NewMkFilter
    /\ pc = "idle"
    /\ args = NoArgs
    /\ err = "none"
    /\ caller = "api"
    /\ trace = <<>>
    /\ pre = Results(NewMkFilter)
    /\ gain = None
    /\ BESSEL_POLES = BesselTable
    /\ other = OtherIdle
    /\ ex \in { [ExIdle EXCEPT !.roots = rs, !.pc = "call"] : rs \in RootLists }
    /\ run = RunIdle
    /\ gen = GenIdle

NextExpand ==
    \/ ExpandEnter
    \/ ExpandIter
    \/ ExpandReturn
    \/ \E p \in Perms(Len(ex.roots)) : ExpandPermuted(p)

SpecExpand == InitExpand /\ [][NextExpand]_vars

\* ------------------------------------------------ apply_filter(signal, mkf)
\* The coefficients and the gain are read and the buffers are zeroed.
ApplyEnter(sig) ==
    /\ pc = "returned" /\ run.pc = "idle"
    /\ run' = [pc |-> "loop", xcoeffs |-> mkf.xcoeffs, ycoeffs |-> mkf.ycoeffs,
               gain |-> GetGain(mkf),
               xv |-> Array([i \in 1..Len(mkf.xcoeffs) |-> 0]),
               yv |-> Array([i \in 1..Len(mkf.ycoeffs) |-> 0]),
               signal |-> sig, n |-> 0,
               output |-> Array([i \in 1..Len(sig) |-> 0])]
    /\ UNCHANGED <<core, BESSEL_POLES, other, ex, gen>>

\* One pass of the loop: both buffers shift, the scaled sample enters xv,
\* and the output is computed, stored last in yv and written to output[n].
ApplySample ==
    /\ run.pc = "loop" /\ run.n < Len(run.signal)
    /\ LET nx == Len(run.xv)
           ny == Len(run.yv)
           xv == Array([i \in 1..nx |->
                    IF i < nx THEN run.xv[i + 1]
                    ELSE RDiv(run.signal[run.n + 1], run.gain)])
           yv == Array([i \in 1..ny |-> IF i < ny THEN run.yv[i + 1] ELSE run.yv[i]])
           y  == ApplyOutput(run.xcoeffs, xv, run.ycoeffs, yv)
       IN  run' = [run EXCEPT !.xv = xv, !.yv = [yv EXCEPT ![ny] = y],
                              !.output = [run.output EXCEPT ![run.n + 1] = y],
                              !.n = run.n + 1]
    /\ UNCHANGED <<core, BESSEL_POLES, other, ex, gen>>

\* return output
ApplyReturn ==
    /\ run.pc = "loop" /\ run.n = Len(run.signal)
    /\ run' = [run EXCEPT !.pc = "done"]
    /\ UNCHANGED <<core, BESSEL_POLES, other, ex, gen>>

NextRun ==
    \/ Fresh /\ \E a \in RunArgs : Design(a)
    \/ Stage
    \/ \E sig \in UNION { [1..n -> SampleVals] : n \in 0..MaxSamples } : ApplyEnter(sig)
    \/ ApplySample
    \/ ApplyReturn

SpecRun == Init /\ [][NextRun]_vars

\* Every design is the first on its object, over the whole argument grid.
Next ==
    \/ New
    \/ Fresh /\ \E a \in CallArgs \cup ApArgs \cup UnorderedArgs : Design(a)
    \/ Fresh /\ \E a \in MainArgs : Main(a)
    \/ Stage
    \/ GetGainCall

Spec == Init /\ [][Next]_vars

\* Designs on an object that may have been used before, over ReuseArgs.
NextReuse ==
    \/ New
    \/ \E a \in ReuseArgs : Design(a)
    \/ Stage
    \/ GetGainCall

SpecReuse == Init /\ [][NextReuse]_vars

\* Designs on two new objects, their stages interleaved in every order.
NextShared ==
    \/ New
    \/ Fresh /\ \E a \in SharedArgs : Design(a)
    \/ Stage
    \/ OtherNew
    \/ \E a \in SharedArgs : OtherDesign(a)
    \/ OtherStage

SpecShared == Init /\ [][NextShared]_vars

\* ------------------------------------------------------ design as a whole
\* MkFilter.design run to its end on object m: the object it leaves and the
\* error it raised ("none" when it returned).
DesignOn(m, a) ==
    LET r == ComputeSPlane(StoreArgs(m, a))
    IN  IF r.err # "none" THEN [mkf |-> r.mkf, err |-> r.err]
        ELSE LET n == Normalize(PrewarpFrequencies(r.mkf))
             IN  [mkf |-> ExpandPoly(IF a.use_blt THEN ComputeZBlt(n) ELSE ComputeZMzt(n)),
                  err |-> "none"]

\* ------------------------------------------- generate_c_code and filterStep
\* Filters the 1/Q grid cannot resolve, as the xcoeffs, ycoeffs and
\* get_gain() that design leaves: design('Bu', 'Lp', 1, alpha1) for alpha1
\* within 5e-11 of 0.25, where xcoeffs is [1, 1], the gain is 2 to ten
\* digits and ycoeffs[0], (1 - tan(pi*alpha1)) / (1 + tan(pi*alpha1)), is
\* within 1.3e-10 of 0 (0.75e-10 for alpha1 = 0.249999999976).
GenFilters ==
    { [xcoeffs |-> << <<Q, 0>>, <<Q, 0>> >>,
       ycoeffs |-> << <<0, t>>, <<-Q, 0>> >>,
       gain |-> 2 * Q] : t \in {-5, -3, -1, 0, 1, 3, 5} }

\* generate_c_code(mkf, optimize): NZEROS, NPOLES and GAIN, the static
\* buffers, zeroed, and filterStep in the form asked for. GAIN is written
\* with ten significant digits, which hold every gain drawn.
GenerateC(f, optimize) ==
    /\ ~gen.code[optimize].made
    /\ gen.mkf \in {None, <<f>>}
    /\ gen' = [gen EXCEPT
                 !.mkf = <<f>>,
                 !.code[optimize] =
                     [made |-> TRUE,
                      NZEROS |-> Len(f.xcoeffs) - 1,
                      NPOLES |-> Len(f.ycoeffs) - 1,
                      GAIN |-> f.gain,
                      terms |-> IF optimize THEN UnrolledTerms(f) ELSE LoopTerms(f),
                      xv |-> Array([i \in 1..Len(f.xcoeffs) |-> <<0, 0>>]),
                      yv |-> Array([i \in 1..Len(f.ycoeffs) |-> <<0, 0>>])]]
    /\ UNCHANGED <<core, BESSEL_POLES, other, ex, run>>

\* filterStep(input) called on both programs: xv shifts and takes
\* input / GAIN, yv shifts, and yv[NPOLES] is computed and returned.
FilterStep(input) ==
    /\ gen.code[TRUE].made /\ gen.code[FALSE].made
    /\ gen.n < MaxSteps
    /\ LET Step(c) ==
               LET xv == Array([i \in 1..(c.NZEROS + 1) |->
                            IF i <= c.NZEROS THEN c.xv[i + 1]
                            ELSE <<RDiv(input, c.GAIN), 0>>])
                   yv == Array([i \in 1..(c.NPOLES + 1) |->
                            IF i <= c.NPOLES THEN c.yv[i + 1] ELSE c.yv[i]])
               IN  [c EXCEPT !.xv = xv,
                             !.yv = [yv EXCEPT ![c.NPOLES + 1] =
                                        SumTerms(c.terms, xv, yv, 1, <<0, 0>>)]]
       IN  gen' = [gen EXCEPT !.n = gen.n + 1,
                              !.code = [optimize \in BOOLEAN |-> Step(gen.code[optimize])]]
    /\ UNCHANGED <<core, BESSEL_POLES, other, ex, run>>

\* generate_c_code is called for the filter just designed, whose
\* coefficients lie on the grid, or for one of GenFilters.
NextGen ==
    \/ Fresh /\ gen.mkf = None /\ \E a \in RunArgs : Design(a)
    \/ Stage
    \/ /\ pc = "returned"
       /\ \E optimize \in BOOLEAN :
             GenerateC([xcoeffs |-> Array([i \in 1..Len(mkf.xcoeffs) |-> <<mkf.xcoeffs[i], 0>>]),
                        ycoeffs |-> Array([i \in 1..Len(mkf.ycoeffs) |-> <<mkf.ycoeffs[i], 0>>]),
                        gain |-> GetGain(mkf)], optimize)
    \/ Fresh /\ \E f \in GenFilters, optimize \in BOOLEAN : GenerateC(f, optimize)
    \/ \E input \in {-Q, 0, Q} : FilterStep(input)

SpecGen == Init /\ [][NextGen]_vars

\* ----------------------------------------------------- valid parameters
\* A corner frequency inside the open interval (0, 0.5).
AlphaInRange(x) == 0 < x /\ 2 * x < Q

\* DesignParameters as the documentation constrains them: order 1..MAXORDER,
\* one corner for Lp/Hp and two for Bp/Bs, corners in (0, 0.5), and a negative
\* ripple for Chebyshev.
ValidParams(a) ==
    /\ a.order >= 1 /\ a.order <= MAXORDER
    /\ a.band_type \in {"Bp", "Bs"} <=> a.alpha2 # None
    /\ AlphaInRange(a.alpha1)
    /\ a.alpha2 # None => AlphaInRange(a.alpha2[1])
    /\ a.filter_type = "Ch" => a.chebrip < 0

\* A design call has run to its return.
Returned == pc = "returned"

\* A design call has ended by raising.
Raised == pc = "raised"

\* A design call has ended, one way or the other.
Ended == Returned \/ Raised

\* The step ran in the current call.
Ran(step) == \E i \in 1..Len(trace) : trace[i] = step

\* The arguments are valid but, possibly, for the order.
ValidButOrder(a) == ValidParams([a EXCEPT !.order = 1])

\* The number of corner frequencies given fits the band shape.
CornerCountFits(a) == a.band_type \in {"Bp", "Bs"} <=> a.alpha2 # None

\* Every corner frequency given lies in (0, 0.5).
CornersInRange(a) ==
    AlphaInRange(a.alpha1) /\ (a.alpha2 # None => AlphaInRange(a.alpha2[1]))

\* abs(z) < 1.0: False for a non-finite z.
InsideUnitCircle(z) == CFin(z) /\ z[1] * z[1] + z[2] * z[2] < Q * Q

\* Every pole of the digital set has magnitude below 1.
Stable(m) == \A i \in 1..Len(m.zplane.poles) : InsideUnitCircle(m.zplane.poles[i])

\* The steps of a design call that returns, in the order of lines 103-119.
StageOrder(use_blt) ==
    <<"design", "poles", "s_plane", "prewarp", "normalize",
      IF use_blt THEN "z_blt" ELSE "z_mzt", "expand">>

IsPrefix(s, t) == Len(s) <= Len(t) /\ \A i \in 1..Len(s) : s[i] = t[i]

\* ------------------------------------------- the product of (z - r), directly
\* Product of two complex numbers with integer parts.
GMul(a, b) == <<a[1] * b[1] - a[2] * b[2], a[1] * b[2] + a[2] * b[1]>>

RECURSIVE GProd(_, _)
\* Product of the roots whose positions are in S.
GProd(rs, S) ==
    IF S = {} THEN <<1, 0>>
    ELSE LET i == CHOOSE i \in S : TRUE
         IN  GMul(rs[i], GProd(rs, S \ {i}))

RECURSIVE GSum(_, _)
\* Sum of those products over the position sets in SS.
GSum(rs, SS) ==
    IF SS = {} THEN <<0, 0>>
    ELSE LET S == CHOOSE S \in SS : TRUE
             t == GSum(rs, SS \ {S})
         IN  <<GProd(rs, S)[1] + t[1], GProd(rs, S)[2] + t[2]>>

\* Coefficients, lowest power first, of the product of (z - r) over the
\* roots: that of z^k is (-1)^(n-k) times the sum, over the sets of n-k
\* roots, of the product of the set.
RefProduct(rs) ==
    [k \in 1..(Len(rs) + 1) |->
        LET j == Len(rs) + 1 - k
            e == GSum(rs, { S \in SUBSET (1..Len(rs)) : Cardinality(S) = j })
        IN  IF j % 2 = 0 THEN Exact(e) ELSE Exact(<<-e[1], -e[2]>>)]

Last(s) == s[Len(s)]

\* Poles (and, under bilinear mapping, zeros) of the digital filter for a
\* band shape and an order.
RootCount(bt, order) == IF bt \in {"Bp", "Bs"} THEN 2 * order ELSE order

\* ------------------------------------------------------------------ C1
\* C1: after every design call that returns, the last element of ycoeffs is
\* exactly -1.0: the pole polynomial _expand returns is monic (its last
\* coefficient is exactly 1) and _expand_poly divides the negated polynomial
\* by that coefficient.
C1_LastYcoeffMinusOne ==
    Returned =>
        /\ Last(mkf.ycoeffs) = -Q
        /\ Last(Expand(mkf.zplane.poles)) = COne

\* A Chebyshev bandpass of the highest order through matched-z has returned
\* 2 * MAXORDER + 1 denominator coefficients, the last of them -1.
C1_Witness ==
    /\ Returned /\ ValidParams(args)
    /\ args.filter_type = "Ch" /\ args.band_type = "Bp" /\ ~args.use_blt
    /\ args.order = MAXORDER
    /\ Len(mkf.ycoeffs) = 2 * MAXORDER + 1
    /\ Last(mkf.ycoeffs) = -Q

\* ------------------------------------------------------------------ C2
\* C2 (as claimed): for all valid parameters, with either value of use_blt,
\* design returns xcoeffs and ycoeffs of equal length.
C2_EqualLengthAlways ==
    (Returned /\ ValidParams(args)) => Len(mkf.xcoeffs) = Len(mkf.ycoeffs)

\* C2 (amended): for all valid parameters, xcoeffs and ycoeffs have equal
\* length exactly when the mapping is bilinear or the band shape is highpass
\* or bandstop; matched-z does not pad, so lowpass gives 1 against N+1
\* coefficients and bandpass N+1 against 2N+1.
C2_EqualLengthIffPadded ==
    (Returned /\ ValidParams(args)) =>
        /\ Len(mkf.ycoeffs) = RootCount(args.band_type, args.order) + 1
        /\ (Len(mkf.xcoeffs) = Len(mkf.ycoeffs))
             <=> (args.use_blt \/ args.band_type \in {"Hp", "Bs"})
        /\ (~args.use_blt /\ args.band_type = "Lp") => Len(mkf.xcoeffs) = 1
        /\ (~args.use_blt /\ args.band_type = "Bp") => Len(mkf.xcoeffs) = args.order + 1

\* A bilinear bandpass of order 3 has returned 7 and 7 coefficients.
C2_Witness ==
    /\ Returned /\ ValidParams(args)
    /\ args.use_blt /\ args.band_type = "Bp" /\ args.order = 3
    /\ Len(mkf.xcoeffs) = 7 /\ Len(mkf.ycoeffs) = 7

\* ------------------------------------------------------------------ C3
\* C3: under bilinear mapping, after a design of order N in 1..MAXORDER the
\* digital set has N poles and N zeros for lowpass and highpass and 2N poles
\* and 2N zeros for bandpass and bandstop, for every family, and xcoeffs and
\* ycoeffs have one element more than that.
C3_BilinearRootCounts ==
    (Returned /\ args.use_blt /\ args.order >= 1 /\ args.order <= MAXORDER) =>
        /\ Len(mkf.zplane.poles) = RootCount(args.band_type, args.order)
        /\ Len(mkf.zplane.zeros) = RootCount(args.band_type, args.order)
        /\ Len(mkf.xcoeffs) = RootCount(args.band_type, args.order) + 1
        /\ Len(mkf.ycoeffs) = RootCount(args.band_type, args.order) + 1

\* A bilinear Bessel bandstop of the highest order has 2 * MAXORDER poles and
\* zeros; a bilinear Butterworth lowpass of order 4 is the case of the test.
C3_Witness ==
    /\ Returned /\ args.use_blt /\ ValidParams(args)
    /\ args.filter_type = "Be" /\ args.band_type = "Bs" /\ args.order = MAXORDER
    /\ Len(mkf.zplane.poles) = 2 * MAXORDER
    /\ Len(mkf.zplane.zeros) = 2 * MAXORDER

\* ------------------------------------------------------------------ C4
\* C4: a design call with family Chebyshev and ripple >= 0 (0.0 included)
\* never gets past _compute_s_plane: it ends by raising ValueError, before
\* the band transform, the domain mapping and the expansion have run, and
\* xcoeffs and ycoeffs are what they were when the call began.
C4_ChebyshevRippleRejected ==
    (pc \notin {"idle", "rejected"} /\ args.filter_type = "Ch" /\ args.chebrip >= 0) =>
        /\ pc \in {"s_plane", "raised"}
        /\ Raised =>
            /\ err = "ValueError"
            /\ ~Ran("prewarp") /\ ~Ran("normalize")
            /\ ~Ran("z_blt") /\ ~Ran("z_mzt") /\ ~Ran("expand")
            /\ mkf.xcoeffs = pre.xcoeffs /\ mkf.ycoeffs = pre.ycoeffs

\* Scenario D: Chebyshev of order 4 with ripple exactly 0.0 has raised.
C4_Witness ==
    /\ Raised /\ err = "ValueError"
    /\ args.filter_type = "Ch" /\ args.chebrip = 0 /\ args.order = 4
    /\ mkf.xcoeffs = None /\ mkf.ycoeffs = None

\* ------------------------------------------------------------------ C5
\* C5 (as claimed): a design call whose order is outside [1, MAXORDER] ends
\* by raising the invalid-parameter error, for every family and band shape,
\* and never returns coefficients.
\* Stated for calls whose other arguments are valid, as the weakest
\* form: such a call does not return.
C5_OrderOutOfRangeFails ==
    (ValidButOrder(args) /\ (args.order < 1 \/ args.order > MAXORDER)) => ~Returned

\* ------------------------------------------------------------------ C6
\* C6 (as claimed): a design call ends by raising the invalid-parameter
\* error when the number of corner frequencies does not fit the band shape:
\* bandpass or bandstop without alpha2, lowpass or highpass with alpha2.
\* Stated for calls whose order and corner values are in range, as the
\* weakest form: such a call does not return.
C6_CornerCountMismatchFails ==
    (/\ args.order \in 1..MAXORDER
     /\ CornersInRange(args)
     /\ args.filter_type = "Ch" => args.chebrip < 0
     /\ ~CornerCountFits(args)) => ~Returned

\* ------------------------------------------------------------------ C7
\* C7 (as claimed): a design call ends by raising the invalid-parameter
\* error when a corner frequency it was given lies outside (0, 0.5).
\* Stated for calls whose order and corner count are right, as the weakest
\* form: such a call does not return.
C7_CornerOutOfRangeFails ==
    (/\ args.order \in 1..MAXORDER
     /\ CornerCountFits(args)
     /\ args.filter_type = "Ch" => args.chebrip < 0
     /\ ~CornersInRange(args)) => ~Returned

\* ------------------------------------------------------------------ C8
\* C8 (as claimed): when a design call raises, no prototype pole has been
\* computed and splane.poles has not been assigned in that call.
\* Stated for calls whose order, corner count and corner values are right.
C8_ErrorsBeforePoles ==
    (/\ Raised
     /\ args.order \in 1..MAXORDER
     /\ CornerCountFits(args)
     /\ CornersInRange(args)) => (~Ran("poles") /\ mkf.splane.poles = <<>>)

\* ------------------------------------------------------------------ C9
\* C9: when a design call raises, xcoeffs, ycoeffs, dc_gain, fc_gain, hf_gain
\* and the zplane set of the object are exactly what they were when the call
\* began (None, 0.0 and empty on a new object).
C9_FailureLeavesResults ==
    Raised =>
        /\ err # "none"
        /\ Results(mkf) = pre
        /\ ~Ran("z_blt") /\ ~Ran("z_mzt") /\ ~Ran("expand")

\* A design has raised on an object that holds the coefficients of an
\* earlier design, and they are still there.
C9_Witness ==
    /\ Raised /\ err = "ValueError"
    /\ pre.xcoeffs # None /\ Len(pre.zplane.poles) > 0
    /\ mkf.xcoeffs = pre.xcoeffs /\ mkf.zplane = pre.zplane

C11_GetGainMapsBandToGain ==
    [][ (gain = None /\ gain' # None) =>
          LET top == Expand(mkf.zplane.zeros)
              bot == Expand(mkf.zplane.poles)
          IN  /\ mkf' = mkf
              /\ mkf.band_type = "Lp" => gain'[1] = CAbs(mkf.dc_gain)
              /\ mkf.band_type = "Hp" => gain'[1] = CAbs(mkf.hf_gain)
              /\ mkf.band_type \in {"Bp", "Ap"} => gain'[1] = CAbs(mkf.fc_gain)
              /\ mkf.band_type = "Bs" =>
                    gain'[1] = CAbs(CSqrt(CMul(mkf.dc_gain, mkf.hf_gain)))
              /\ Returned =>
                    /\ mkf.dc_gain = Evaluate(top, bot, COne)
                    /\ mkf.fc_gain = Evaluate(top, bot, CisPi(mkf.raw_alpha1 + mkf.raw_alpha2, Q))
                    /\ mkf.hf_gain = Evaluate(top, bot, CReal(-Q)) ]_vars

\* get_gain has returned a finite highpass gain, |hf_gain|, that differs from
\* |dc_gain| of the same design.
C11_Witness ==
    /\ Returned /\ ValidParams(args) /\ args.band_type = "Hp"
    /\ gain # None /\ Fin(gain[1]) /\ gain[1] > 0
    /\ gain[1] = CAbs(mkf.hf_gain)
    /\ gain[1] # CAbs(mkf.dc_gain)

\* ----------------------------------------------------------------- C12
\* C12 (as claimed): after every Butterworth or Chebyshev design with valid
\* parameters (order in range, corner frequencies inside (0, 0.5), the right
\* number of them, negative ripple), bilinear or matched-z, every pole in
\* zplane.poles has magnitude strictly below 1.  Stated for the orders up to
\* MaxSmallOrder, where the grid resolves the distance to the unit circle.
C12_ButterChebPolesInsideUnitCircle ==
    (/\ Returned /\ ValidParams(args)
     /\ args.filter_type \in {"Bu", "Ch"}
     /\ args.order <= MaxSmallOrder) => Stable(mkf)

\* ----------------------------------------------------------------- C13
\* C13: whatever designs run on two distinct objects, in whatever
\* interleaving of their stages, returning or raising, BESSEL_POLES keeps its
\* initial value, and every call that has ended has the outcome the same call
\* has when it runs alone on a new object.
C13_BesselTableNeverWritten ==
    [][ /\ BESSEL_POLES = BesselTable
        /\ BESSEL_POLES' = BesselTable
        /\ (pc \notin {"returned", "raised"} /\ pc' \in {"returned", "raised"}) =>
              /\ err' = DesignOn(NewMkFilter, args).err
              /\ pc' = "returned" =>
                    Results(mkf') = Results(DesignOn(NewMkFilter, args).mkf)
        /\ (other.pc \notin {"returned", "raised"} /\ other'.pc \in {"returned", "raised"}) =>
              /\ other'.err = DesignOn(NewMkFilter, other.args).err
              /\ other'.pc = "returned" =>
                    Results(other'.mkf) = Results(DesignOn(NewMkFilter, other.args).mkf)
      ]_vars

\* Two Bessel designs of different orders have both returned, the second
\* begun after the first was entered and before the first read the table.
C13_Witness ==
    /\ Returned /\ other.pc = "returned"
    /\ args.filter_type = "Be" /\ other.args.filter_type = "Be"
    /\ args.order # other.args.order
    /\ other.during = "s_plane"
    /\ BESSEL_POLES = BesselTable
    /\ Len(other.mkf.ycoeffs) = RootCount(other.args.band_type, other.args.order) + 1

\* ----------------------------------------------------------------- C14
\* C14: within one design call the stages run once each and in the order
\* prototype poles, prewarp, band transform, domain mapping (bilinear when
\* use_blt, matched-z otherwise, never both), expansion: the steps taken so
\* far are always a beginning of that order, each stage finds the output of
\* the one before, a call that returns has taken them all, and a call that
\* raises has stopped inside the prototype stage.
C14_StagesInFixedOrder ==
    /\ pc \in {"s_plane", "prewarp", "normalize", "z_plane", "expand"} =>
          IsPrefix(trace, StageOrder(args.use_blt))
    /\ pc = "s_plane" => trace = <<"design">>
    /\ pc = "prewarp" => Len(trace) = 3
    /\ pc = "normalize" =>
          /\ Len(trace) = 4
          /\ mkf.warped_alpha1 = PrewarpFrequencies(mkf).warped_alpha1
          /\ mkf.warped_alpha2 = PrewarpFrequencies(mkf).warped_alpha2
    /\ pc = "z_plane" => Len(trace) = 5
    /\ pc = "expand" =>
          /\ Len(trace) = 6
          /\ Len(mkf.zplane.poles) = Len(mkf.splane.poles)
    /\ Returned => trace = StageOrder(args.use_blt)
    /\ Raised => trace \in {<<"design", "raise">>, <<"design", "poles", "raise">>}

\* A matched-z design has returned after the five stages, without the
\* bilinear one.
C14_Witness ==
    /\ Returned /\ ValidParams(args) /\ ~args.use_blt
    /\ trace = <<"design", "poles", "s_plane", "prewarp", "normalize", "z_mzt", "expand">>
    /\ ~Ran("z_blt")

\* ----------------------------------------------------------------- C15
\* C15: _expand(roots) returns the coefficients, lowest power first, of the
\* monic product of (z - r) over the roots: [1] for no roots; after each
\* pass of the loop the vector is one longer, ends in 1 and is the product
\* over the roots taken so far; for roots with integer parts the result is
\* exactly the product computed directly.
C15_ExpandIsMonicProduct ==
    /\ ex.pc = "loop" =>
          /\ Len(ex.coeffs) = ex.i
          /\ Last(ex.coeffs) = COne
          /\ ex.coeffs = RefProduct(SubSeq(ex.roots, 1, ex.i - 1))
    /\ ex.pc = "done" =>
          /\ Len(ex.coeffs) = Len(ex.roots) + 1
          /\ Last(ex.coeffs) = COne
          /\ ex.coeffs = RefProduct(ex.roots)
          /\ ex.coeffs = Expand(ExactAll(ex.roots))
          /\ ex.roots = <<>> => ex.coeffs = <<COne>>

\* _expand has returned for the roots 1+j, -2, -j: z^3 + (1-0j)z^2 ... with
\* four coefficients, the last of them 1.
C15_Witness ==
    /\ ex.pc = "done"
    /\ ex.roots = << <<1, 1>>, <<-2, 0>>, <<0, -1>> >>
    /\ Len(ex.coeffs) = 4
    /\ ex.coeffs[4] = COne
    /\ ex.coeffs[1] = Exact(<<2, -2>>)

\* ----------------------------------------------------------------- C16
\* C16: _expand gives the same coefficient vector for a root list and for
\* every permutation of it (roots with integer parts, where the arithmetic
\* is exact).
C16_ExpandOrderInvariant ==
    ex.pcoeffs # None =>
        /\ ex.pcoeffs = ex.coeffs
        /\ ex.pcoeffs = Expand(ExactAll(ex.roots))

\* Three distinct roots were expanded again in reversed order.
C16_Witness ==
    /\ ex.pcoeffs # None
    /\ ex.roots = << <<1, 1>>, <<-2, 0>>, <<0, -1>> >>
    /\ ex.perm = <<3, 2, 1>>
    /\ ex.pcoeffs = ex.coeffs


\* ----------------------------------------------------------------- C17
\* C17: for every family and every order N in 1..MAXORDER the prototype
\* stage leaves exactly N poles. Butterworth and Chebyshev: none of the 2N
\* candidates lies on the imaginary axis and N of them are kept; the
\* Chebyshev scaling keeps their number. Bessel: for odd N the first pole is
\* one table row as it stands, and each of the N // 2 following rows gives a
\* pole and its conjugate.
C17_PrototypeLeavesNPoles ==
    (pc \in {"prewarp", "normalize"} /\ args.order \in 1..MAXORDER) =>
        LET n == args.order
            poles == mkf.splane.poles
            odd == n % 2
            p == BesselFirst(n)
        IN  /\ Len(poles) = n
            /\ args.filter_type \in {"Bu", "Ch"} =>
                  /\ \A i \in 0..(2 * n - 1) :
                        /\ ThetaIndex(i, n) \notin {n, 3 * n}
                        /\ Re(CisPi(ThetaIndex(i, n), 2 * n)) # 0
                  /\ Len(ButterPoles(0, n)) = n
                  /\ \A i \in 1..n : RLt(Re(poles[i]), 0)
            /\ args.filter_type = "Bu" => poles = ButterPoles(0, n)
            /\ args.filter_type = "Ch" => poles = ChebScale(ButterPoles(0, n), ChebY(mkf))
            /\ args.filter_type = "Be" =>
                  /\ odd = 1 => poles[1] = BesselRow(p)
                  /\ \A k \in 1..(n \div 2) :
                        /\ poles[odd + 2 * k - 1] = BesselRow(p + odd + k - 1)
                        /\ poles[odd + 2 * k] = CConj(BesselRow(p + odd + k - 1))

\* The prototype stage has run for the Bessel family at order 5: one real
\* pole and two conjugate pairs.
C17_Witness ==
    /\ pc = "prewarp"
    /\ args.filter_type = "Be"
    /\ args.order = 5
    /\ Len(mkf.splane.poles) = 5
    /\ Im(mkf.splane.poles[1]) = 0
    /\ Im(mkf.splane.poles[2]) # 0
    /\ mkf.splane.poles[3] = CConj(mkf.splane.poles[2])


\* ----------------------------------------------------------------- C18
\* C18: the band transform of an N-pole prototype leaves, for lowpass, N
\* poles and no zeros; for highpass, N poles and N zeros at the origin; for
\* bandpass, 2N poles, the two of prototype pole i adjacent and in the
\* order hba*(1+disc), hba*(1-disc), and N zeros at the origin; for
\* bandstop, 2N poles paired the same way and 2N zeros alternating +j*w0,
\* -j*w0. Whatever zeros the object held before the transform, the set it
\* leaves is the same.
C18_BandTransformCounts ==
    [][(pc = "normalize" /\ pc' = "z_plane" /\ args.band_type \in BandTypes) =>
        LET P  == mkf.splane.poles
            n  == Len(P)
            w1 == RMul(TWOPI, mkf.warped_alpha1)
            w2 == RMul(TWOPI, mkf.warped_alpha2)
            w0 == RSqrt(RMul(w1, w2))
            bw == RSub(w2, w1)
            NP == mkf'.splane.poles
            NZ == mkf'.splane.zeros
            Paired(hba, i) ==
                /\ NP[2 * i - 1] = CMul(hba, CAdd(COne, BandDisc(w0, hba)))
                /\ NP[2 * i] = CMul(hba, CSub(COne, BandDisc(w0, hba)))
        IN  /\ args.band_type = "Lp" => Len(NP) = n /\ NZ = <<>>
            /\ args.band_type = "Hp" =>
                  Len(NP) = n /\ Len(NZ) = n /\ \A i \in 1..n : NZ[i] = <<0, 0>>
            /\ args.band_type = "Bp" =>
                  /\ Len(NP) = 2 * n /\ Len(NZ) = n
                  /\ \A i \in 1..n :
                        /\ NZ[i] = <<0, 0>>
                        /\ Paired(CMul(CMul(CReal(Half), P[i]), CReal(bw)), i)
            /\ args.band_type = "Bs" =>
                  /\ Len(NP) = 2 * n /\ Len(NZ) = 2 * n
                  /\ \A i \in 1..n :
                        /\ NZ[2 * i - 1] = Cx(0, w0)
                        /\ NZ[2 * i] = Cx(0, RNeg(w0))
                        /\ Paired(CDiv(CReal(RMul(Half, bw)), P[i]), i)
            /\ \A old \in {<<COne>>, BsZeros(3, Q)} :
                  Normalize([mkf EXCEPT !.splane.zeros = old]).splane = mkf'.splane
      ]_vars

\* A valid bandstop of order 3 has been transformed: six poles, and six
\* zeros that alternate between +j*w0 and -j*w0, w0 > 0.
C18_Witness ==
    /\ pc = "z_plane"
    /\ ValidParams(args) /\ args.band_type = "Bs" /\ args.order = 3
    /\ Len(mkf.splane.poles) = 6
    /\ Len(mkf.splane.zeros) = 6
    /\ Re(mkf.splane.zeros[1]) = 0
    /\ RLt(0, Im(mkf.splane.zeros[1]))
    /\ mkf.splane.zeros[2] = CConj(mkf.splane.zeros[1])
    /\ mkf.splane.poles[1] # mkf.splane.poles[2]


\* ----------------------------------------------------------------- C19
\* C19: the domain mapping gives one digital pole per analog pole and one
\* digital zero per analog zero, in order. The bilinear path then appends
\* zeros at z = -1 until there are as many zeros as poles: it appends
\* exactly the shortfall, nothing when the counts already match, and it
\* leaves a list that is long enough as it is. The matched-z path appends
\* nothing, so it has as many digital zeros as analog zeros.
C19_DomainMappingCounts ==
    [][(pc = "z_plane" /\ pc' = "expand") =>
        LET sp == mkf.splane.poles
            sz == mkf.splane.zeros
            zp == mkf'.zplane.poles
            zz == mkf'.zplane.zeros
            short == IF Len(sz) < Len(sp) THEN Len(sp) - Len(sz) ELSE 0
        IN  /\ Len(zp) = Len(sp)
            /\ args.use_blt =>
                  /\ \A i \in 1..Len(sp) : zp[i] = Blt(sp[i])
                  /\ Len(zz) = Len(sz) + short
                  /\ \A i \in 1..Len(sz) : zz[i] = Blt(sz[i])
                  /\ \A i \in (Len(sz) + 1)..Len(zz) : zz[i] = CReal(-Q)
                  /\ \A k \in 0..Len(zz) : PadZeros(zz, k) = zz
            /\ ~args.use_blt =>
                  /\ \A i \in 1..Len(sp) : zp[i] = CExp(sp[i])
                  /\ Len(zz) = Len(sz)
                  /\ \A i \in 1..Len(sz) : zz[i] = CExp(sz[i])
      ]_vars

\* A valid bandpass of order 2 went through the bilinear path: four poles,
\* the two analog zeros at the origin mapped to z = 1, and two zeros at
\* z = -1 appended.
C19_Witness ==
    /\ pc = "expand"
    /\ ValidParams(args) /\ args.use_blt /\ args.band_type = "Bp" /\ args.order = 2
    /\ Len(mkf.splane.zeros) = 2
    /\ Len(mkf.zplane.poles) = 4
    /\ mkf.zplane.zeros = <<COne, COne, CReal(-Q), CReal(-Q)>>


C21_UnrolledAndLoopAgree ==
    (gen.code[TRUE].made /\ gen.code[FALSE].made) =>
        LET u == gen.code[TRUE]
            l == gen.code[FALSE]
        IN  /\ u.NZEROS = l.NZEROS /\ u.NZEROS = Len(gen.mkf[1].xcoeffs) - 1
            /\ u.NPOLES = l.NPOLES /\ u.NPOLES = Len(gen.mkf[1].ycoeffs) - 1
            /\ u.GAIN = l.GAIN
            /\ u.xv = l.xv
            /\ u.yv = l.yv


\* ----------------------------------------------------------------- C22
\* C22: for every order N in 1..MAXORDER the Bessel branch reads exactly
\* the ceil(N/2) rows p .. p + ceil(N/2) - 1 of the table, p = (N*N) // 4,
\* all of them inside its 30 rows; the ranges of the ten orders are
\* pairwise disjoint and together are the rows 0..29; the first row of an
\* odd order (rows 0, 2, 6, 12, 20) has imaginary part zero and no other
\* row of any order has. After the branch has run, the poles with
\* non-negative imaginary part are those rows.
C22_BesselRowRanges ==
    LET Rows(n) == BesselFirst(n)..(BesselFirst(n) + BesselCount(n) - 1)
    IN  /\ Len(BESSEL_POLES) = 30
        /\ \A n \in 1..MAXORDER :
              /\ BesselFirst(n) = (n * n) \div 4
              /\ BesselCount(n) = (n + 1) \div 2
              /\ \A r \in Rows(n) : InTable(r)
              /\ ~BesselRaises(n)
              /\ \A k \in 1..MAXORDER : k # n => Rows(k) \cap Rows(n) = {}
              /\ \A r \in Rows(n) :
                    Im(BesselRow(r)) = 0 <=> (n % 2 = 1 /\ r = BesselFirst(n))
        /\ UNION { Rows(n) : n \in 1..MAXORDER } = 0..(Len(BESSEL_POLES) - 1)
        /\ { BesselFirst(n) : n \in {1, 3, 5, 7, 9} } = {0, 2, 6, 12, 20}
        /\ (pc = "prewarp" /\ args.filter_type = "Be" /\ args.order \in 1..MAXORDER) =>
              { mkf.splane.poles[i] : i \in { j \in 1..Len(mkf.splane.poles) :
                                                Im(mkf.splane.poles[j]) >= 0 } }
                  = { BesselRow(r) : r \in Rows(args.order) }

\* The Bessel branch has run at order 7: rows 12 to 15 were read, row 12,
\* the real pole, first.
C22_Witness ==
    /\ pc = "prewarp"
    /\ args.filter_type = "Be" /\ args.order = 7
    /\ BesselFirst(7) = 12 /\ BesselCount(7) = 4
    /\ Len(mkf.splane.poles) = 7
    /\ mkf.splane.poles[1] = BesselRow(12)
    /\ Im(BesselRow(12)) = 0
    /\ mkf.splane.poles[6] = BesselRow(15)

=============================================================================
